---- MODULE Spec2Model ----
(***************************************************************************)
(* Model of report/projet1/generate-graphs.py: a batch script that loads   *)
(* performance.csv, normalises it and derives the series of six charts.    *)
(*                                                                         *)
(* Strings are sequences of word tokens, so that str.contains(w) and       *)
(* "w in s" are computed (a search for the token w) and f-string           *)
(* concatenation is \o.  Floating-point numbers are dyadic rationals       *)
(* <<n, d>> (d a power of two, lowest terms) rounded to MantBits           *)
(* significant bits, round-half-to-even, after every operation; NaN is     *)
(* <<0, 0>>.  The exponent range is unbounded (no overflow, no subnormal). *)
(***************************************************************************)
EXTENDS Integers, Sequences, FiniteSets, TLC

VARIABLES header, csv, df, pc, artifacts,
          grouped, kmp_times, bm_times,
          nodes, sizes,
          prefilter,
          times,
          build_times, match_times, total_times,
          scenarios_all, best_algos

vars == <<header, csv, df, pc, artifacts, grouped, kmp_times, bm_times,
          nodes, sizes, prefilter, times, build_times, match_times,
          total_times, scenarios_all, best_algos>>

\* ------------------------------------------------------------------ bounds
MaxRows == 3
MantBits == 5

\* ------------------------------------------------------- float arithmetic
RECURSIVE Pow2(_)
Pow2(k) == IF k = 0 THEN 1 ELSE 2 * Pow2(k - 1)

Abs(n) == IF n < 0 THEN -n ELSE n

NaN == <<0, 0>>
Zero == <<0, 1>>
IsNaN(x) == x[2] = 0

RECURSIVE Norm(_, _)
Norm(n, d) == IF d > 1 /\ n % 2 = 0 THEN Norm(n \div 2, d \div 2) ELSE <<n, d>>

\* x / y rounded to the nearest integer, ties to the even one (x >= 0, y > 0)
RoundHalfEven(x, y) ==
    LET q == x \div y
        r == x % y
    IN  IF 2 * r < y THEN q
        ELSE IF 2 * r > y THEN q + 1
        ELSE IF q % 2 = 0 THEN q ELSE q + 1

RECURSIVE UpExp(_, _, _)
UpExp(a, d, s) == IF a < Pow2(MantBits) * d * s THEN s ELSE UpExp(a, d, 2 * s)

RECURSIVE DownExp(_, _, _)
DownExp(a, d, s) == IF a * s >= Pow2(MantBits - 1) * d THEN s ELSE DownExp(a, d, 2 * s)

\* the float nearest to the rational n / d (d > 0)
RoundQ(n, d) ==
    IF n = 0 THEN Zero
    ELSE LET a == Abs(n)
             sg == IF n < 0 THEN -1 ELSE 1
         IN  IF a >= Pow2(MantBits - 1) * d
             THEN LET s == UpExp(a, d, 1) IN Norm(sg * RoundHalfEven(a, d * s) * s, 1)
             ELSE LET s == DownExp(a, d, 1) IN Norm(sg * RoundHalfEven(a * s, d), s)

FromInt(i) == RoundQ(i, 1)

FAdd(x, y) == IF IsNaN(x) \/ IsNaN(y) THEN NaN
              ELSE RoundQ(x[1] * y[2] + y[1] * x[2], x[2] * y[2])

FSub(x, y) == IF IsNaN(x) \/ IsNaN(y) THEN NaN
              ELSE RoundQ(x[1] * y[2] - y[1] * x[2], x[2] * y[2])

FMul(x, y) == IF IsNaN(x) \/ IsNaN(y) THEN NaN
              ELSE RoundQ(x[1] * y[1], x[2] * y[2])

FDiv(x, y) == IF IsNaN(x) \/ IsNaN(y) \/ y[1] = 0 THEN NaN
              ELSE IF y[1] < 0 THEN RoundQ(-(x[1] * y[2]), x[2] * (-y[1]))
              ELSE RoundQ(x[1] * y[2], x[2] * y[1])

\* comparisons with NaN are False
FLt(x, y) == ~IsNaN(x) /\ ~IsNaN(y) /\ x[1] * y[2] < y[1] * x[2]
FGt(x, y) == FLt(y, x)

\* --------------------------------------------------------------- strings
Contains(s, w) == \E i \in 1..Len(s) : s[i] = w

KMP == <<"KMP">>
BoyerMoore == <<"Boyer-Moore">>
AhoCorasick == <<"Aho-Corasick">>
NFA_ == <<"NFA">>
NFACache == <<"NFA+DFA-cache">>
DFA_ == <<"DFA">>
MinDFA == <<"min-DFA">>
WithPrefilter(base) == base \o <<"(with", "prefilter", ")">>

\* ------------------------------------------------------------ data frames
AllColumns == {"Algorithm", "Scenario", "Pattern", "Build Time (ms)",
               "Match Time (ms)", "Total Time (ms)", "Memory Used (KB)",
               "Structure Size (KB)", "Structure Nodes", "Text Length"}

cols == {"Build Time (ms)", "Match Time (ms)", "Total Time (ms)",
         "Memory Used (KB)", "Structure Size (KB)"}

NumericColumns == AllColumns \ {"Algorithm", "Scenario", "Pattern"}

\* a boolean-mask selection df[mask] is SelectSeq: the rows that satisfy the
\* mask, in row order

Col(t, c) == [i \in 1..Len(t) |-> t[i][c]]

\* Series.unique(): the distinct values in order of first appearance
Unique(s) ==
    LET F[i \in 0..Len(s)] ==
            IF i = 0 THEN <<>>
            ELSE IF \E j \in 1..Len(F[i - 1]) : F[i - 1][j] = s[i]
                 THEN F[i - 1]
                 ELSE Append(F[i - 1], s[i])
    IN  F[Len(s)]

\* numpy's sum of fewer than 8 values: left to right from 0.0
Sum(s) ==
    LET F[i \in 0..Len(s)] == IF i = 0 THEN Zero ELSE FAdd(F[i - 1], s[i])
    IN  F[Len(s)]

\* Series.mean(): NaN for an empty selection
Mean(t, c) == IF Len(t) = 0 THEN NaN ELSE FDiv(Sum(Col(t, c)), FromInt(Len(t)))

\* ------------------------------------------------------------------ load
\* df.fillna(0): a missing cell of any column becomes 0
FillNa(row) == [c \in DOMAIN row |->
                  IF c \in NumericColumns /\ IsNaN(row[c]) THEN Zero ELSE row[c]]

Load ==
    /\ pc = "load"
    /\ IF cols \subseteq header
       THEN /\ df' = [i \in 1..Len(csv) |-> FillNa(csv[i])]
            /\ pc' = "graph1"
       ELSE /\ pc' = "failed"
            /\ UNCHANGED df
    /\ UNCHANGED <<header, csv, artifacts, grouped, kmp_times, bm_times, nodes,
                   sizes, prefilter, times, build_times, match_times,
                   total_times, scenarios_all, best_algos>>

\* Python's sorted() on a collection of distinct floats
RECURSIVE Sorted(_)
Sorted(S) ==
    IF S = {} THEN <<>>
    ELSE LET m == CHOOSE x \in S : \A y \in S : ~FLt(y, x)
         IN  <<m>> \o Sorted(S \ {m})

Range(s) == {s[i] : i \in 1..Len(s)}

\* ------------------------------------------- graph 1: KMP vs Boyer-Moore
pattern_lengths(p) ==
    CASE p = <<"abc">> -> FromInt(3)
      [] p = <<"the">> -> FromInt(3)
      [] p = <<"abcdefghijklmnop">> -> FromInt(16)
      [] p = <<"constitution">> -> FromInt(12)
      [] OTHER -> NaN

patterns_to_show == << <<"abc">>, <<"constitution">> >>

LiteralPatterns(t) ==
    SelectSeq(t, LAMBDA r : r["Algorithm"] \in {KMP, BoyerMoore}
                        /\ Contains(r["Scenario"], "Literal"))

\* groupby('Pattern Length')[...].mean(): one entry per length present,
\* ascending, rows whose length is NaN dropped
Grouped(t, algo) ==
    LET data == SelectSeq(LiteralPatterns(t), LAMBDA r : r["Algorithm"] = algo)
        keys == Sorted({pattern_lengths(data[i]["Pattern"]) : i \in 1..Len(data)}
                       \ {NaN})
    IN  [k \in 1..Len(keys) |->
            <<keys[k],
              Mean(SelectSeq(data, LAMBDA r : pattern_lengths(r["Pattern"]) = keys[k]),
                   "Match Time (ms)")>>]

BarTimes(t, algo) ==
    LET data_subset == SelectSeq(LiteralPatterns(t),
                             LAMBDA r : r["Pattern"] \in Range(patterns_to_show))
    IN  [k \in 1..Len(patterns_to_show) |->
            Mean(SelectSeq(data_subset, LAMBDA r : r["Pattern"] = patterns_to_show[k]
                                               /\ r["Algorithm"] = algo),
                 "Match Time (ms)")]

Graph1 ==
    /\ pc = "graph1"
    /\ IF {"Algorithm", "Scenario", "Pattern", "Match Time (ms)"} \subseteq header
       THEN /\ grouped' = <<Grouped(df, KMP), Grouped(df, BoyerMoore)>>
            /\ kmp_times' = BarTimes(df, KMP)
            /\ bm_times' = BarTimes(df, BoyerMoore)
            /\ artifacts' = artifacts \cup {"graph1_kmp_vs_boyermoore.png"}
            /\ pc' = "graph2"
       ELSE /\ pc' = "failed"
            /\ UNCHANGED <<grouped, kmp_times, bm_times, artifacts>>
    /\ UNCHANGED <<header, csv, df, nodes, sizes, prefilter, times, build_times,
                   match_times, total_times, scenarios_all, best_algos>>

\* ---------------------------------------------- graph 2: structure sizes
scenarios_to_show ==
    << <<"Short", "Literal", "-", "Small", "Text">>,
       <<"Long", "Literal", "-", "Small", "Text">>,
       <<"Simple", "Regex", "-", "Dot">>,
       <<"Complex", "Regex", "-", "Alternation">> >>

automata3 == <<NFA_, DFA_, MinDFA>>

DataNodes(t) ==
    SelectSeq(t, LAMBDA r : /\ r["Algorithm"] \in Range(automata3)
                        /\ FGt(r["Structure Size (KB)"], Zero)
                        /\ ~Contains(r["Scenario"], "prefilter")
                        /\ r["Scenario"] \in Range(scenarios_to_show))

StructureMeans(t, column) ==
    [a \in 1..Len(automata3) |->
        [k \in 1..Len(scenarios_to_show) |->
            Mean(SelectSeq(DataNodes(t), LAMBDA r : r["Scenario"] = scenarios_to_show[k]
                                                /\ r["Algorithm"] = automata3[a]),
                 column)]]

Graph2 ==
    /\ pc = "graph2"
    /\ IF {"Algorithm", "Structure Size (KB)", "Scenario", "Structure Nodes"}
              \subseteq header
       THEN /\ nodes' = StructureMeans(df, "Structure Nodes")
            /\ sizes' = StructureMeans(df, "Structure Size (KB)")
            /\ artifacts' = artifacts \cup {"graph2_structure_size.png"}
            /\ pc' = "graph3"
       ELSE /\ pc' = "failed"
            /\ UNCHANGED <<nodes, sizes, artifacts>>
    /\ UNCHANGED <<header, csv, df, grouped, kmp_times, bm_times, prefilter, times,
                   build_times, match_times, total_times, scenarios_all, best_algos>>

\* --------------------------------------------- graph 3: prefilter impact
test_pattern == <<"a.c">>
KB == 1024
ThresholdKB == 10
Percent == 100

PrefilterData(t, algo_base, pattern) ==
    SelectSeq(t, LAMBDA r : /\ r["Algorithm"] \in {algo_base, WithPrefilter(algo_base)}
                        /\ Contains(r["Scenario"], "Regex")
                        /\ r["Pattern"] = pattern)

HasPrefilter(r) == Contains(r["Algorithm"], "prefilter")

TextSizeKB(r) == FDiv(r["Text Length"], FromInt(KB))

\* faulty variant: the sizes in order of first appearance, not sorted
TextSizes_Unsorted(data) == Unique([i \in 1..Len(data) |-> TextSizeKB(data[i])])

TextSizes(data) == Sorted({TextSizeKB(data[i]) : i \in 1..Len(data)})

\* faulty variant: the NaN of an empty side kept
NanToZero_Kept(x) == x

NanToZero(x) == IF ~IsNaN(x) THEN x ELSE Zero

\* faulty variant: the plain side averaged over every row of the size
WithoutPrefilterTime_AllRows(data, size) ==
    NanToZero(Mean(SelectSeq(data, LAMBDA r : TextSizeKB(r) = size), "Total Time (ms)"))

WithoutPrefilterTime(data, size) ==
    NanToZero(Mean(SelectSeq(data, LAMBDA r : TextSizeKB(r) = size /\ ~HasPrefilter(r)),
                   "Total Time (ms)"))

WithPrefilterTime(data, size) ==
    NanToZero(Mean(SelectSeq(data, LAMBDA r : TextSizeKB(r) = size /\ HasPrefilter(r)),
                   "Total Time (ms)"))

\* faulty variant: the division done whatever the baseline
Percentage_Unguarded(without, with_pf) ==
    FMul(FDiv(FSub(without, with_pf), without), FromInt(100))

\* faulty variant: the difference taken the other way round
Percentage_Reversed(without, with_pf) ==
    IF FGt(without, Zero)
    THEN FMul(FDiv(FSub(with_pf, without), without), FromInt(100))
    ELSE Zero

Percentage(without, with_pf) ==
    IF FGt(without, Zero)
    THEN FMul(FDiv(FSub(without, with_pf), without), FromInt(Percent))
    ELSE Zero

ColorPct(p) == IF FGt(p, Zero) THEN "green" ELSE "red"

PrefilterTuples(t, algo_base, pattern) ==
    LET data == PrefilterData(t, algo_base, pattern)
        text_sizes == TextSizes(data)
    IN  [i \in 1..Len(text_sizes) |->
            LET without == WithoutPrefilterTime(data, text_sizes[i])
                with_pf == WithPrefilterTime(data, text_sizes[i])
                pct == Percentage(without, with_pf)
            IN  [text_size |-> text_sizes[i], without |-> without,
                 with_pf |-> with_pf, pct |-> pct, color |-> ColorPct(pct)]]

\* faulty variant: a size of exactly 10 KB counted as below the threshold
ThresholdIdx_Inclusive(tuples) ==
    Cardinality({i \in 1..Len(tuples) : ~FGt(tuples[i].text_size, FromInt(ThresholdKB))})

ThresholdIdx(tuples) ==
    Cardinality({i \in 1..Len(tuples) : FLt(tuples[i].text_size, FromInt(ThresholdKB))})

\* range(len(text_sizes)): the x position of each bar, from 0
BarPositions(tuples) == [i \in 1..Len(tuples) |-> FromInt(i - 1)]

\* axvspan(-0.5, threshold_idx - 0.5), drawn when threshold_idx > 0
Span(tuples) ==
    IF ThresholdIdx(tuples) > 0
    THEN << <<-1, 2>>, FSub(FromInt(ThresholdIdx(tuples)), <<1, 2>>) >>
    ELSE <<>>

\* one loop iteration; an empty selection is skipped before any other column
\* is read
PrefilterChart(t, algo_base) ==
    LET tuples == PrefilterTuples(t, algo_base, test_pattern)
    IN  [algo_base |-> algo_base, tuples |-> tuples,
         bar_x |-> BarPositions(tuples),
         threshold_idx |-> ThresholdIdx(tuples),
         axvspan |-> ThresholdIdx(tuples) > 0,
         span |-> Span(tuples)]

bases == <<NFA_, DFA_>>

NeedsTextLength(t) ==
    \E b \in 1..Len(bases) : Len(PrefilterData(t, bases[b], test_pattern)) > 0

Graph3 ==
    /\ pc = "graph3"
    /\ IF /\ {"Algorithm", "Scenario", "Pattern"} \subseteq header
          /\ NeedsTextLength(df) => {"Text Length", "Total Time (ms)"} \subseteq header
       THEN /\ prefilter' = [b \in 1..Len(bases) |-> PrefilterChart(df, bases[b])]
            /\ artifacts' = artifacts \cup {"graph3_prefilter_impact.png"}
            /\ pc' = "graph4"
       ELSE /\ pc' = "failed"
            /\ UNCHANGED <<prefilter, artifacts>>
    /\ UNCHANGED <<header, csv, df, grouped, kmp_times, bm_times, nodes, sizes,
                   times, build_times, match_times, total_times, scenarios_all,
                   best_algos>>

\* ------------------------------------------- graph 4: automata comparison
automata4 == <<NFA_, NFACache, DFA_, MinDFA>>

scenarios_complexity ==
    << <<"Short", "Literal", "-", "Small", "Text">>,
       <<"Simple", "Regex", "-", "Dot">>,
       <<"Complex", "Regex", "-", "Alternation">> >>

AutomataData(t) ==
    SelectSeq(t, LAMBDA r : /\ r["Algorithm"] \in Range(automata4)
                        /\ ~Contains(r["Scenario"], "prefilter"))

Times(t) ==
    [a \in 1..Len(automata4) |->
        [k \in 1..Len(scenarios_complexity) |->
            Mean(SelectSeq(AutomataData(t),
                       LAMBDA r : r["Scenario"] = scenarios_complexity[k]
                                  /\ r["Algorithm"] = automata4[a]),
                 "Total Time (ms)")]]

Graph4 ==
    /\ pc = "graph4"
    /\ IF {"Algorithm", "Scenario", "Build Time (ms)", "Match Time (ms)",
           "Total Time (ms)"} \subseteq header
       THEN /\ times' = Times(df)
            /\ artifacts' = artifacts \cup {"graph4_automata_comparison.png"}
            /\ pc' = "graph5"
       ELSE /\ pc' = "failed"
            /\ UNCHANGED <<times, artifacts>>
    /\ UNCHANGED <<header, csv, df, grouped, kmp_times, bm_times, nodes, sizes,
                   prefilter, build_times, match_times, total_times,
                   scenarios_all, best_algos>>

\* ------------------------------------------------ graph 5: Aho-Corasick
algos_to_compare == <<AhoCorasick, NFA_, NFACache, DFA_, MinDFA>>

AlternationData(t) ==
    SelectSeq(t, LAMBDA r : /\ Contains(r["Scenario"], "Alternation")
                        /\ ~Contains(r["Scenario"], "prefilter"))

AlgoMeans(t, column) ==
    [a \in 1..Len(algos_to_compare) |->
        Mean(SelectSeq(AlternationData(t),
                   LAMBDA r : r["Algorithm"] = algos_to_compare[a]),
             column)]

Graph5 ==
    /\ pc = "graph5"
    /\ IF {"Scenario", "Algorithm", "Build Time (ms)", "Match Time (ms)",
           "Total Time (ms)"} \subseteq header
       THEN /\ build_times' = AlgoMeans(df, "Build Time (ms)")
            /\ match_times' = AlgoMeans(df, "Match Time (ms)")
            /\ total_times' = AlgoMeans(df, "Total Time (ms)")
            /\ artifacts' = artifacts \cup {"graph5_aho_corasick.png"}
            /\ pc' = "graph6"
       ELSE /\ pc' = "failed"
            /\ UNCHANGED <<build_times, match_times, total_times, artifacts>>
    /\ UNCHANGED <<header, csv, df, grouped, kmp_times, bm_times, nodes, sizes,
                   prefilter, times, scenarios_all, best_algos>>

\* --------------------------------------------------- graph 6: decision matrix
\* faulty variant: the row of the largest total time
IdxMin_Largest(t) ==
    CHOOSE i \in 1..Len(t) :
        /\ \A j \in 1..Len(t) : ~FGt(t[j]["Total Time (ms)"], t[i]["Total Time (ms)"])
        /\ \A j \in 1..(i - 1) : FGt(t[i]["Total Time (ms)"], t[j]["Total Time (ms)"])

\* faulty variant: the last of the rows of minimal total time
IdxMin_LastSeen(t) ==
    CHOOSE i \in 1..Len(t) :
        /\ \A j \in 1..Len(t) : ~FLt(t[j]["Total Time (ms)"], t[i]["Total Time (ms)"])
        /\ \A j \in (i + 1)..Len(t) : FLt(t[i]["Total Time (ms)"], t[j]["Total Time (ms)"])

\* idxmin(): the label of the first row of minimal total time
IdxMin(t) ==
    CHOOSE i \in 1..Len(t) :
        /\ \A j \in 1..Len(t) : ~FLt(t[j]["Total Time (ms)"], t[i]["Total Time (ms)"])
        /\ \A j \in 1..(i - 1) : FLt(t[i]["Total Time (ms)"], t[j]["Total Time (ms)"])

\* faulty variant: the Scenario column without unique()
ScenariosAll_Repeated(t) ==
    SelectSeq(Col(t, "Scenario"), LAMBDA s : ~Contains(s, "prefilter"))

ScenariosAll(t) ==
    SelectSeq(Unique(Col(t, "Scenario")), LAMBDA s : ~Contains(s, "prefilter"))

DataScenario(t, scenario) ==
    SelectSeq(t, LAMBDA r : r["Scenario"] = scenario /\ ~Contains(r["Algorithm"], "prefilter"))

BestAlgo(t, scenario) ==
    LET data_scenario == DataScenario(t, scenario)
    IN  IF Len(data_scenario) > 0
        THEN data_scenario[IdxMin(data_scenario)]["Algorithm"]
        ELSE <<"N/A">>

BestAlgos(t) ==
    LET sc == ScenariosAll(t) IN [i \in 1..Len(sc) |-> BestAlgo(t, sc[i])]

Graph6 ==
    /\ pc = "graph6"
    /\ IF {"Scenario", "Algorithm", "Total Time (ms)"} \subseteq header
       THEN /\ scenarios_all' = ScenariosAll(df)
            /\ best_algos' = BestAlgos(df)
            /\ artifacts' = artifacts \cup {"graph6_decision_matrix.png"}
            /\ pc' = "exit"
       ELSE /\ pc' = "failed"
            /\ UNCHANGED <<scenarios_all, best_algos, artifacts>>
    /\ UNCHANGED <<header, csv, df, grouped, kmp_times, bm_times, nodes, sizes,
                   prefilter, times, build_times, match_times, total_times>>

Exit ==
    /\ pc = "exit"
    /\ pc' = "done"
    /\ UNCHANGED <<header, csv, df, artifacts, grouped, kmp_times, bm_times,
                   nodes, sizes, prefilter, times, build_times, match_times,
                   total_times, scenarios_all, best_algos>>

\* ------------------------------------------------------------ input tables
Row(alg, scen, pat, len, build, match, total, ssize, snodes) ==
    [c \in AllColumns |->
        CASE c = "Algorithm" -> alg
          [] c = "Scenario" -> scen
          [] c = "Pattern" -> pat
          [] c = "Text Length" -> len
          [] c = "Build Time (ms)" -> build
          [] c = "Match Time (ms)" -> match
          [] c = "Total Time (ms)" -> total
          [] c = "Structure Size (KB)" -> ssize
          [] c = "Structure Nodes" -> snodes
          [] OTHER -> Zero]

Tables(U) == UNION {[1..n -> U] : n \in 1..MaxRows}

\* a file whose header is h holds the cells of the columns of h only
Cells(r, h) == [c \in h |-> r[c]]

Start(U, H) ==
    /\ header \in H
    /\ csv \in Tables({Cells(r, header) : r \in U})
    /\ df = <<>>
    /\ pc = "load"
    /\ artifacts = {}
    /\ grouped = <<>> /\ kmp_times = <<>> /\ bm_times = <<>>
    /\ nodes = <<>> /\ sizes = <<>>
    /\ prefilter = <<>>
    /\ times = <<>>
    /\ build_times = <<>> /\ match_times = <<>> /\ total_times = <<>>
    /\ scenarios_all = <<>> /\ best_algos = <<>>

ShortLiteral == <<"Short", "Literal", "-", "Small", "Text">>
SimpleRegexDot == <<"Simple", "Regex", "-", "Dot">>
ComplexAlternation == <<"Complex", "Regex", "-", "Alternation">>
RegexPrefiltered == <<"Simple", "Regex", "(with", "prefilter", ")">>

Measure(alg, scen, pat, len, total) ==
    Row(alg, scen, pat, FromInt(len), FromInt(1), FromInt(2), FromInt(total),
        FromInt(4), FromInt(3))

\* tables for the decision matrix: two scenarios the matrix reports and one
\* whose name says prefilter, plain and prefiltered algorithms, tied and
\* untied times
DecisionRows ==
    { Measure(a, s, <<"abc">>, 1024, t) :
        a \in {KMP, BoyerMoore}, s \in {ShortLiteral, SimpleRegexDot}, t \in {5, 7} }
    \cup { Measure(WithPrefilter(NFA_), s, <<"a.c">>, 1024, 5) :
        s \in {ShortLiteral, RegexPrefiltered} }

InitDecision == Start(DecisionRows, {AllColumns})

\* tables for the prefilter analysis of pattern a.c: a size below and one above
\* 10 KB, sizes measured on one side only, a zero baseline, gains and losses,
\* a row of a scenario that is not a Regex one, another pattern, a DFA row
PrefilterRows ==
    { Measure(NFA_, SimpleRegexDot, <<"a.c">>, 5120, t) : t \in {0, 10, 15} }
    \cup { Measure(WithPrefilter(NFA_), SimpleRegexDot, <<"a.c">>, 5120, t) : t \in {10, 15} }
    \cup { Measure(NFA_, SimpleRegexDot, <<"a.c">>, 20480, 10),
           Measure(WithPrefilter(NFA_), SimpleRegexDot, <<"a.c">>, 20480, 15),
           Measure(NFA_, ShortLiteral, <<"a.c">>, 20480, 10),
           Measure(NFA_, SimpleRegexDot, <<"abc">>, 20480, 10),
           Measure(DFA_, SimpleRegexDot, <<"a.c">>, 5120, 10) }

InitPrefilter == Start(PrefilterRows, {AllColumns})

\* tables for the means of charts 1, 2, 4 and 5: groups that have rows and
\* groups that have none; a cell left empty in the file
AggRows ==
    { Measure(KMP, ShortLiteral, <<"abc">>, 1024, 5),
      Measure(KMP, ShortLiteral, <<"constitution">>, 1024, 7),
      Measure(BoyerMoore, ShortLiteral, <<"abc">>, 1024, 7),
      Measure(AhoCorasick, ComplexAlternation, <<"a|b">>, 1024, 5),
      Measure(NFA_, ComplexAlternation, <<"a|b">>, 1024, 7),
      Measure(MinDFA, ComplexAlternation, <<"a|b">>, 1024, 5),
      Measure(DFA_, ShortLiteral, <<"abc">>, 1024, 5),
      Row(NFACache, SimpleRegexDot, <<"a.c">>, FromInt(1024), NaN, NaN, NaN, NaN, NaN) }

InitAgg == Start(AggRows, {AllColumns})

\* files whose header lacks at most one of the ten columns
HeaderRows ==
    { Measure(KMP, ShortLiteral, <<"abc">>, 1024, 5),
      Measure(NFA_, SimpleRegexDot, <<"a.c">>, 5120, 10),
      Measure(WithPrefilter(DFA_), SimpleRegexDot, <<"a.c">>, 5120, 15),
      Measure(NFA_, ComplexAlternation, <<"a|b">>, 1024, 7) }

Headers == {AllColumns} \cup {AllColumns \ {c} : c \in AllColumns}

InitHeader == Start(HeaderRows, Headers)

\* tables for row-order questions: a group of three rows whose sum rounds,
\* groups whose sums are exact, two text sizes, tied and untied scenarios
OrderRows ==
    { Measure(NFA_, SimpleRegexDot, <<"a.c">>, 5120, t) : t \in {1, 2, 31} }
    \cup { Measure(WithPrefilter(NFA_), SimpleRegexDot, <<"a.c">>, 5120, 2),
           Measure(NFA_, ComplexAlternation, <<"a.c">>, 20480, 2),
           Measure(DFA_, SimpleRegexDot, <<"a.c">>, 5120, 2) }

InitOrder == Start(OrderRows, {AllColumns})

\* tables for the 10 KB annotation: sizes below, at and above the threshold
ThresholdRows ==
    { Measure(NFA_, SimpleRegexDot, <<"a.c">>, len, 10) :
        len \in {1024, 5120, 10240, 20480} }
    \cup { Measure(WithPrefilter(NFA_), SimpleRegexDot, <<"a.c">>, 5120, 15),
           Measure(WithPrefilter(NFA_), SimpleRegexDot, <<"a.c">>, 10240, 15),
           Measure(DFA_, SimpleRegexDot, <<"a.c">>, 20480, 10),
           Measure(KMP, ShortLiteral, <<"abc">>, 1024, 5) }

InitThreshold == Start(ThresholdRows, {AllColumns})

Next == Load \/ Graph1 \/ Graph2 \/ Graph3 \/ Graph4 \/ Graph5 \/ Graph6 \/ Exit

SpecDecision == InitDecision /\ [][Next]_vars

SpecPrefilter == InitPrefilter /\ [][Next]_vars

SpecAgg == InitAgg /\ [][Next]_vars

SpecHeader == InitHeader /\ [][Next]_vars

SpecOrder == InitOrder /\ [][Next]_vars

SpecThreshold == InitThreshold /\ [][Next]_vars

\* ======================================================== decision matrix
Scenarios(t) == {t[i]["Scenario"] : i \in 1..Len(t)}

Candidates(t, s) ==
    {j \in 1..Len(t) : t[j]["Scenario"] = s /\ ~Contains(t[j]["Algorithm"], "prefilter")}

Total(t, j) == t[j]["Total Time (ms)"]

EntriesOf(s) == {i \in 1..Len(scenarios_all) : scenarios_all[i] = s}

\* C1 as stated: the matrix has exactly one entry for every distinct Scenario
\* value of the table, so as many entries as the table has distinct scenarios.
C1_TotalityAllScenarios ==
    pc = "done" =>
        /\ Len(best_algos) = Len(scenarios_all)
        /\ \A s \in Scenarios(df) : Cardinality(EntriesOf(s)) = 1
        /\ Len(scenarios_all) = Cardinality(Scenarios(df))

\* C1 amended: the matrix has exactly one entry (a winner or 'N/A') for every
\* distinct Scenario value whose name does not contain 'prefilter', and none
\* for a scenario whose name contains it; the number of entries is the number
\* of distinct scenarios without 'prefilter' in their name.
C1_Totality ==
    pc = "done" =>
        /\ Len(best_algos) = Len(scenarios_all)
        /\ \A s \in Scenarios(df) :
              Cardinality(EntriesOf(s)) = IF Contains(s, "prefilter") THEN 0 ELSE 1
        /\ \A i \in 1..Len(scenarios_all) : scenarios_all[i] \in Scenarios(df)
        /\ Len(scenarios_all)
              = Cardinality({s \in Scenarios(df) : ~Contains(s, "prefilter")})
        /\ \A i \in 1..Len(best_algos) :
              \/ best_algos[i] = <<"N/A">>
              \/ \E j \in 1..Len(df) : df[j]["Algorithm"] = best_algos[i]

\* a finished run on a table with a repeated scenario, a scenario named
\* prefilter, and a reported scenario that has only prefiltered rows
C1_Witness ==
    /\ pc = "done"
    /\ Len(df) = 3
    /\ df[1]["Scenario"] = df[3]["Scenario"]
    /\ \E j \in 1..Len(df) : Contains(df[j]["Scenario"], "prefilter")
    /\ scenarios_all = <<ShortLiteral>>
    /\ best_algos = << <<"N/A">> >>

\* C2: every entry names the algorithm of a non-prefiltered row of its
\* scenario whose total time is minimal among the scenario's non-prefiltered
\* rows; it is 'N/A' exactly when the scenario has no such row; a prefiltered
\* algorithm is never the winner.
C2_WinnerIsMinimal ==
    pc = "done" =>
        \A i \in 1..Len(scenarios_all) :
            LET cand == Candidates(df, scenarios_all[i])
                w == best_algos[i]
            IN  /\ (w = <<"N/A">>) <=> (cand = {})
                /\ ~Contains(w, "prefilter")
                /\ cand # {} =>
                      \E j \in cand :
                          /\ df[j]["Algorithm"] = w
                          /\ \A k \in cand : ~FLt(Total(df, k), Total(df, j))

\* scenario A of the specification (KMP 5.0, Boyer-Moore 7.0) next to a
\* faster prefiltered row of the same scenario: KMP wins
C2_Witness ==
    /\ pc = "done"
    /\ df = << Measure(BoyerMoore, ShortLiteral, <<"abc">>, 1024, 7),
               Measure(WithPrefilter(NFA_), ShortLiteral, <<"a.c">>, 1024, 5),
               Measure(KMP, ShortLiteral, <<"abc">>, 1024, 5) >>
    /\ scenarios_all = <<ShortLiteral>>
    /\ best_algos = <<KMP>>

FirstMinimal(t, cand) ==
    CHOOSE j \in cand :
        /\ \A k \in cand : ~FLt(Total(t, k), Total(t, j))
        /\ \A k \in cand : k < j => FLt(Total(t, j), Total(t, k))

\* C3: when several non-prefiltered rows of a scenario share the minimal
\* total time, the entry names the algorithm of the first of them in row
\* order, and the matrix computed again from the unchanged table is the same.
C3_FirstSeenWins ==
    pc = "done" =>
        /\ \A i \in 1..Len(scenarios_all) :
              LET cand == Candidates(df, scenarios_all[i])
              IN  cand # {} => best_algos[i] = df[FirstMinimal(df, cand)]["Algorithm"]
        /\ BestAlgos(df) = best_algos

\* two algorithms tied on the minimal time, the later-listed one preceding
C3_Witness ==
    /\ pc = "done"
    /\ \E j, k \in 1..Len(df) :
          /\ j < k
          /\ df[j]["Scenario"] = ShortLiteral /\ df[k]["Scenario"] = ShortLiteral
          /\ df[j]["Algorithm"] = BoyerMoore /\ df[k]["Algorithm"] = KMP
          /\ Total(df, j) = Total(df, k)
          /\ \A m \in Candidates(df, ShortLiteral) : ~FLt(Total(df, m), Total(df, j))
          /\ \E m \in Candidates(df, ShortLiteral) : FLt(Total(df, j), Total(df, m))
    /\ best_algos[1] = BoyerMoore

\* ====================================================== prefilter analysis
\* the rows the claim C4 names: base algorithm or its prefiltered variant, and
\* the pattern
NamedRows(t, b) ==
    {j \in 1..Len(t) : /\ t[j]["Algorithm"] \in {bases[b], WithPrefilter(bases[b])}
                       /\ t[j]["Pattern"] = test_pattern}

RegexRows(t, b) == {j \in NamedRows(t, b) : Contains(t[j]["Scenario"], "Regex")}

Lengths(t, rows) == {t[j]["Text Length"] : j \in rows}

\* the rows of one side at one text length, in row order
Side(t, rows, b, len, prefiltered) ==
    SelectSeq([j \in 1..Len(t) |-> [row |-> t[j], in |-> j \in rows]],
          LAMBDA e : /\ e.in
                     /\ e.row["Text Length"] = len
                     /\ (e.row["Algorithm"] = WithPrefilter(bases[b])) = prefiltered)

SideMean(t, rows, b, len, prefiltered) ==
    LET side == Side(t, rows, b, len, prefiltered)
    IN  Mean([i \in 1..Len(side) |-> side[i].row], "Total Time (ms)")

\* the tuples of base b are those of the rows `rows`: one per distinct Text
\* Length, each with the size in KB, the two means and the gain
TuplesMatch(t, rows, b) ==
    LET tuples == prefilter[b].tuples
    IN  /\ Len(tuples) = Cardinality(Lengths(t, rows))
        /\ \A len \in Lengths(t, rows) :
              \E i \in 1..Len(tuples) :
                  LET u == tuples[i]
                      nopf == Side(t, rows, b, len, FALSE)
                      pf == Side(t, rows, b, len, TRUE)
                  IN  /\ u.text_size = FDiv(len, FromInt(1024))
                      /\ Len(nopf) > 0 => u.without = SideMean(t, rows, b, len, FALSE)
                      /\ Len(pf) > 0 => u.with_pf = SideMean(t, rows, b, len, TRUE)
                      /\ FGt(u.without, Zero) =>
                            u.pct = FMul(FDiv(FSub(u.without, u.with_pf), u.without),
                                         FromInt(100))

\* C4 as stated: the rows analysed are all rows of the base algorithm or its
\* prefiltered variant with the given pattern; one tuple per distinct Text
\* Length among them, with size = length / 1024, the two means and the gain.
C4_TuplesOfNamedRows ==
    pc = "done" => \A b \in 1..Len(bases) : TuplesMatch(df, NamedRows(df, b), b)

\* C4 amended: the rows analysed are those of the base algorithm or its
\* prefiltered variant, with the given pattern, whose Scenario contains
\* 'Regex'; one tuple per distinct Text Length among them, with size =
\* length / 1024, without / with = the mean Total Time of the non-prefiltered /
\* prefiltered rows at that size, gain = (without - with) / without * 100 when
\* without > 0.
C4_TuplesOfRegexRows ==
    pc = "done" => \A b \in 1..Len(bases) : TuplesMatch(df, RegexRows(df, b), b)

\* scenario B of the specification, (5 KB, 10, 15, -50), with a second plain
\* row of another scenario class that the analysis leaves out
C4_Witness ==
    /\ pc = "done"
    /\ df = << Measure(NFA_, SimpleRegexDot, <<"a.c">>, 5120, 10),
               Measure(WithPrefilter(NFA_), SimpleRegexDot, <<"a.c">>, 5120, 15),
               Measure(NFA_, ShortLiteral, <<"a.c">>, 20480, 10) >>
    /\ prefilter[1].tuples =
          << [text_size |-> <<5, 1>>, without |-> <<10, 1>>, with_pf |-> <<15, 1>>,
              pct |-> <<-50, 1>>, color |-> "red"] >>

\* C5: a text size measured on one side only still has its tuple, and the
\* absent side's mean is 0, never NaN.
C5_PartialPair ==
    pc = "done" =>
        \A b \in 1..Len(bases) :
            LET rows == RegexRows(df, b)
                tuples == prefilter[b].tuples
            IN  /\ \A len \in Lengths(df, rows) :
                      \E i \in 1..Len(tuples) :
                          /\ tuples[i].text_size = FDiv(len, FromInt(1024))
                          /\ Len(Side(df, rows, b, len, FALSE)) = 0
                                => tuples[i].without = Zero
                          /\ Len(Side(df, rows, b, len, TRUE)) = 0
                                => tuples[i].with_pf = Zero
                /\ \A i \in 1..Len(tuples) :
                      /\ ~IsNaN(tuples[i].without)
                      /\ ~IsNaN(tuples[i].with_pf)
                      /\ ~IsNaN(tuples[i].pct)

\* one size with plain rows only and another with prefiltered rows only
C5_Witness ==
    /\ pc = "done"
    /\ Len(prefilter[1].tuples) = 2
    /\ Len(Side(df, RegexRows(df, 1), 1, FromInt(5120), FALSE)) = 0
    /\ Len(Side(df, RegexRows(df, 1), 1, FromInt(20480), TRUE)) = 0
    /\ prefilter[1].tuples[1].without = Zero
    /\ FGt(prefilter[1].tuples[1].with_pf, Zero)
    /\ prefilter[1].tuples[2].with_pf = Zero
    /\ FGt(prefilter[1].tuples[2].without, Zero)

\* C6: a tuple whose 'without' is 0, measured or absent, has gain 0 whatever
\* its 'with' is.
C6_ZeroBaseline ==
    pc = "done" =>
        \A b \in 1..Len(bases) :
            \A i \in 1..Len(prefilter[b].tuples) :
                prefilter[b].tuples[i].without = Zero
                    => prefilter[b].tuples[i].pct = Zero

\* a measured zero baseline against a prefiltered time of 15
C6_Witness ==
    /\ pc = "done"
    /\ \E i \in 1..Len(prefilter[1].tuples) :
          /\ prefilter[1].tuples[i].without = Zero
          /\ prefilter[1].tuples[i].with_pf = <<15, 1>>
          /\ prefilter[1].tuples[i].pct = Zero
          /\ Len(Side(df, RegexRows(df, 1), 1,
                      FMul(prefilter[1].tuples[i].text_size, FromInt(1024)), FALSE)) > 0

\* C7: with a positive baseline the gain is positive exactly when 'with' is
\* below 'without', zero exactly when they are equal, negative exactly when
\* 'with' is above; the bar is green exactly when the gain is positive.
C7_SignLaw ==
    pc = "done" =>
        \A b \in 1..Len(bases) :
            \A i \in 1..Len(prefilter[b].tuples) :
                LET u == prefilter[b].tuples[i]
                IN  /\ FGt(u.without, Zero) =>
                          /\ FGt(u.pct, Zero) <=> FLt(u.with_pf, u.without)
                          /\ (u.pct = Zero) <=> (u.with_pf = u.without)
                          /\ FLt(u.pct, Zero) <=> FGt(u.with_pf, u.without)
                    /\ (u.color = "green") <=> FGt(u.pct, Zero)

\* a gain and a loss in the same chart, the first green and the second red
C7_Witness ==
    /\ pc = "done"
    /\ Len(prefilter[1].tuples) = 2
    /\ FLt(prefilter[1].tuples[1].with_pf, prefilter[1].tuples[1].without)
    /\ FGt(prefilter[1].tuples[1].pct, Zero)
    /\ prefilter[1].tuples[1].color = "green"
    /\ FGt(prefilter[1].tuples[2].with_pf, prefilter[1].tuples[2].without)
    /\ FGt(prefilter[1].tuples[2].without, Zero)
    /\ FLt(prefilter[1].tuples[2].pct, Zero)
    /\ prefilter[1].tuples[2].color = "red"

\* ============================================================ aggregation
RowsWith(t, Test(_)) == {j \in 1..Len(t) : Test(t[j])}

\* C8 as stated: a mean requested for a group that has no row is 0 in the
\* derived series, in every chart, and the run does not fail.
C8_MissingGroupIsZero ==
    /\ header = AllColumns => pc # "failed"
    /\ pc = "done" =>
          /\ \A k \in 1..Len(patterns_to_show) :
                /\ RowsWith(df, LAMBDA r : /\ r["Algorithm"] = KMP
                                           /\ Contains(r["Scenario"], "Literal")
                                           /\ r["Pattern"] = patterns_to_show[k]) = {}
                      => kmp_times[k] = Zero
                /\ RowsWith(df, LAMBDA r : /\ r["Algorithm"] = BoyerMoore
                                           /\ Contains(r["Scenario"], "Literal")
                                           /\ r["Pattern"] = patterns_to_show[k]) = {}
                      => bm_times[k] = Zero
          /\ \A a \in 1..Len(automata4) : \A k \in 1..Len(scenarios_complexity) :
                RowsWith(df, LAMBDA r : /\ r["Algorithm"] = automata4[a]
                                        /\ r["Scenario"] = scenarios_complexity[k]) = {}
                    => times[a][k] = Zero
          /\ \A a \in 1..Len(algos_to_compare) :
                RowsWith(df, LAMBDA r : /\ r["Algorithm"] = algos_to_compare[a]
                                        /\ Contains(r["Scenario"], "Alternation")
                                        /\ ~Contains(r["Scenario"], "prefilter")) = {}
                    => /\ build_times[a] = Zero
                       /\ match_times[a] = Zero
                       /\ total_times[a] = Zero

\* ================================================================= header
Derived == <<grouped, kmp_times, bm_times, nodes, sizes, prefilter, times,
             build_times, match_times, total_times, scenarios_all, best_algos>>

NothingDerived == Derived = <<<<>>, <<>>, <<>>, <<>>, <<>>, <<>>, <<>>, <<>>, <<>>,
                              <<>>, <<>>, <<>>>>

\* C9 as stated: with one of the ten columns absent from the header the run
\* fails before anything is derived or written, and never ends in success.
C9_MissingColumnFatalAtLoad ==
    header # AllColumns =>
        /\ pc # "done"
        /\ artifacts = {}
        /\ NothingDerived
        /\ pc \notin {"load"} => pc = "failed"

\* the part of C9 about the outcome alone: no success without all ten columns
C9_NeverSucceeds == pc = "done" => header = AllColumns

\* ============================================================== row order
Perms(n) == {p \in [1..n -> 1..n] : \A i, j \in 1..n : p[i] = p[j] => i = j}

Permute(t, p) == [i \in 1..Len(t) |-> t[p[i]]]

DecisionMap(t) ==
    LET sc == ScenariosAll(t)
        best == BestAlgos(t)
    IN  {<<sc[i], best[i]>> : i \in 1..Len(sc)}

SizesOf(tuples) == [i \in 1..Len(tuples) |-> tuples[i].text_size]

Series(t) ==
    <<Grouped(t, KMP), Grouped(t, BoyerMoore), BarTimes(t, KMP), BarTimes(t, BoyerMoore),
      StructureMeans(t, "Structure Nodes"), StructureMeans(t, "Structure Size (KB)"),
      Times(t), AlgoMeans(t, "Build Time (ms)"), AlgoMeans(t, "Match Time (ms)"),
      AlgoMeans(t, "Total Time (ms)"),
      [b \in 1..Len(bases) |-> PrefilterTuples(t, bases[b], test_pattern)]>>

SeriesOfRun ==
    <<grouped[1], grouped[2], kmp_times, bm_times, nodes, sizes, times, build_times,
      match_times, total_times, [b \in 1..Len(bases) |-> prefilter[b].tuples]>>

NoTies(t) ==
    \A s \in Scenarios(t) :
        \A j, k \in Candidates(t, s) :
            (/\ Total(t, j) = Total(t, k)
             /\ \A m \in Candidates(t, s) : ~FLt(Total(t, m), Total(t, j))) => j = k

ExactAdd(x, y) == Norm(x[1] * y[2] + y[1] * x[2], x[2] * y[2])

RECURSIVE ExactSum(_, _, _)
ExactSum(t, c, rows) ==
    IF rows = {} THEN Zero
    ELSE LET j == CHOOSE j \in rows : TRUE
         IN  ExactAdd(t[j][c], ExactSum(t, c, rows \ {j}))

\* no sum of cells of an averaged column is rounded
ExactSums(t) ==
    \A c \in {"Build Time (ms)", "Match Time (ms)", "Total Time (ms)",
              "Structure Size (KB)", "Structure Nodes"} :
        \A rows \in SUBSET (1..Len(t)) :
            LET x == ExactSum(t, c, rows) IN RoundQ(x[1], x[2]) = x

\* C10 as stated: with no scenario tied on its minimal total time, every
\* reordering of the rows gives the same scenario -> winner mapping, the same
\* per-group means and the same prefilter tuples.
C10_RowOrderInvariance ==
    (pc = "done" /\ NoTies(df)) =>
        \A p \in Perms(Len(df)) :
            /\ DecisionMap(Permute(df, p)) = {<<scenarios_all[i], best_algos[i]>> :
                                                i \in 1..Len(scenarios_all)}
            /\ Series(Permute(df, p)) = SeriesOfRun

\* C10 amended: with no scenario tied on its minimal total time, every
\* reordering of the rows gives the same scenario -> winner mapping and the
\* same text sizes of the prefilter tuples; the per-group means and the
\* prefilter tuples are the same when no sum of the averaged columns is
\* rounded (a sum of three or more values that rounds depends on their order).
C10_RowOrderInvariantExact ==
    (pc = "done" /\ NoTies(df)) =>
        LET exact == ExactSums(df)
        IN  \A p \in Perms(Len(df)) :
                LET t == Permute(df, p)
                IN  /\ DecisionMap(t) = {<<scenarios_all[i], best_algos[i]>> :
                                           i \in 1..Len(scenarios_all)}
                    /\ \A b \in 1..Len(bases) :
                          SizesOf(PrefilterTuples(t, bases[b], test_pattern))
                              = SizesOf(prefilter[b].tuples)
                    /\ exact => Series(t) = SeriesOfRun

\* three distinct rows, a scenario with two untied candidates whose winner is
\* not the first row, a prefilter group of two rows, exact sums
C10_Witness ==
    /\ pc = "done"
    /\ NoTies(df)
    /\ ExactSums(df)
    /\ df = << Measure(NFA_, SimpleRegexDot, <<"a.c">>, 5120, 2),
               Measure(NFA_, SimpleRegexDot, <<"a.c">>, 5120, 1),
               Measure(WithPrefilter(NFA_), SimpleRegexDot, <<"a.c">>, 5120, 2) >>
    /\ best_algos = <<NFA_>>
    /\ prefilter[1].tuples[1].without = <<3, 2>>

\* ============================================================== threshold
\* the bar positions strictly inside the shaded span
Shaded(chart) ==
    {i \in 1..Len(chart.tuples) :
        /\ chart.axvspan
        /\ FLt(chart.span[1], chart.bar_x[i])
        /\ FLt(chart.bar_x[i], chart.span[2])}

Below10(chart) ==
    {i \in 1..Len(chart.tuples) : FLt(chart.tuples[i].text_size, <<10, 1>>)}

\* C11: the tuples come in strictly increasing text-size order, without a
\* repeated size; the shaded region covers exactly the bars of the sizes
\* strictly below 10 KB, which are the first k positions, and no bar of a
\* size of 10 KB or more; it is drawn exactly when k > 0.
C11_ThresholdRegion ==
    pc = "done" =>
        \A b \in 1..Len(bases) :
            LET chart == prefilter[b]
                k == Cardinality(Below10(chart))
            IN  /\ \A i \in 1..(Len(chart.tuples) - 1) :
                      FLt(chart.tuples[i].text_size, chart.tuples[i + 1].text_size)
                /\ Below10(chart) = 1..k
                /\ Shaded(chart) = Below10(chart)
                /\ \A i \in 1..Len(chart.tuples) : chart.bar_x[i] = <<i - 1, 1>>
                /\ chart.axvspan <=> k > 0

\* rows listed from the largest size down: three bars for 5, 10 and 20 KB,
\* the span from -0.5 to 0.5 over the first bar alone
C11_Witness ==
    /\ pc = "done"
    /\ df = << Measure(NFA_, SimpleRegexDot, <<"a.c">>, 20480, 10),
               Measure(NFA_, SimpleRegexDot, <<"a.c">>, 10240, 10),
               Measure(NFA_, SimpleRegexDot, <<"a.c">>, 5120, 10) >>
    /\ SizesOf(prefilter[1].tuples) = << <<5, 1>>, <<10, 1>>, <<20, 1>> >>
    /\ prefilter[1].axvspan
    /\ prefilter[1].span = << <<-1, 2>>, <<1, 2>> >>
    /\ ~prefilter[2].axvspan
====
